---------------------------- MODULE Spec2Model ----------------------------
(***************************************************************************)
(* A model of scripts/render-table.py: spans and span-sets, the modifier   *)
(* registry, the priority-sorted modifier pipeline and the renderer.       *)
(*                                                                         *)
(* Text is a sequence of symbols.  A symbol is one character ("1", "-",    *)
(* "\\" for a backslash, "\n" for a line feed) or an unbreakable run of    *)
(* letters ("midrule", "round", "red"): no operation of the program looks  *)
(* inside a run of letters except to compare it as a whole.                *)
(***************************************************************************)
EXTENDS Integers, Sequences, FiniteSets, TLC

VARIABLES
    pc,         \* position of main(): "start", "table", "rows", "done", "aborted", "failed"
    cfg,        \* the command line: the options main() receives
    rows,       \* main's rows span-set (after Spans.parse / Spans.all)
    cols,       \* print_table's cols: the selected column names
    wrappers,   \* main's wrappers list (sorted once by priority)
    data,       \* print_table's data: the rows to filter, header row included
    cursor,     \* position of Spans.filter's enumerate over data
    rowNo,      \* position of print_table's enumerate over the filtered rows
    out,        \* standard output: one entry per print() call
    cellLog,    \* history: the apply() calls made for the last printed row
    rowLog,     \* history: the apply_row() calls made for the last printed row
    emitted,    \* history: the source index of every row printed so far
    spanText,   \* Span.parse: the text given
    span,       \* Span.parse: the Span built (or the failure)
    probe,      \* Span.__contains__: the index tested and the answer
    roundCall   \* RoundNumbers: the arguments, the cell and the result

vars == <<pc, cfg, rows, cols, wrappers, data, cursor, rowNo, out, cellLog,
          rowLog, emitted, spanText, span, probe, roundCall>>

runVars == <<pc, cfg, rows, cols, wrappers, data, cursor, rowNo, out, cellLog,
             rowLog, emitted>>

spanVars == <<spanText, span, probe>>

---------------------------------------------------------------------------
(* Bounds of the model. *)

\* Longest span text given to Span.parse in SpanSpec.
MaxSpanLen == 4

\* Indices tested for membership range over -MaxIndex .. MaxIndex.
MaxIndex == 12

\* Most modifiers (row and column modifiers together) on a command line of
\* the pipeline family.
MaxModifiers == 2

\* Largest --start-at tried.
MaxStartAt == 1

\* RoundSpec rounds the integers -MaxRoundValue .. MaxRoundValue.
MaxRoundValue == 1600

---------------------------------------------------------------------------
(* Python values. *)

\* Python's None where an int may stand, and an int that is present.
NoneInt == [some |-> FALSE, v |-> 0]

SomeInt(n) == [some |-> TRUE, v |-> n]

\* Python's None where a text may stand, and a text that is present.
NoneText == [some |-> FALSE, v |-> <<>>]

SomeText(t) == [some |-> TRUE, v |-> t]

\* The outcome of a call that raised / of one that returned v.
Raised == [ok |-> FALSE]

Returned(x) == [ok |-> TRUE, v |-> x]

Digits == <<"0", "1", "2", "3", "4", "5", "6", "7", "8", "9">>

IsDigit(c) == \E i \in DOMAIN Digits : Digits[i] = c

DigitVal(c) == (CHOOSE i \in DOMAIN Digits : Digits[i] = c) - 1

IsSpace(c) == c \in {" ", "\n", "\t"}

AllDigits(t) == \A i \in DOMAIN t : IsDigit(t[i])

\* The value of a run of decimal digits (0 for the empty run).
RECURSIVE DigitsVal(_)
DigitsVal(t) ==
    IF t = <<>> THEN 0
    ELSE 10 * DigitsVal(SubSeq(t, 1, Len(t) - 1)) + DigitVal(t[Len(t)])

\* str(n) for a natural number n.
RECURSIVE NatStr(_)
NatStr(n) ==
    IF n < 10 THEN <<Digits[n + 1]>>
    ELSE NatStr(n \div 10) \o <<Digits[(n % 10) + 1]>>

\* str.strip(): leading and trailing whitespace removed.
RECURSIVE LStrip(_)
LStrip(t) == IF t # <<>> /\ IsSpace(t[1]) THEN LStrip(Tail(t)) ELSE t

RECURSIVE RStrip(_)
RStrip(t) ==
    IF t # <<>> /\ IsSpace(t[Len(t)]) THEN RStrip(SubSeq(t, 1, Len(t) - 1))
    ELSE t

Strip(t) == RStrip(LStrip(t))

\* The position of the first occurrence of symbol c in t, 0 when there is none.
IndexOf(t, c) ==
    IF \E i \in DOMAIN t : t[i] = c
    THEN CHOOSE i \in DOMAIN t : t[i] = c /\ \A j \in 1..(i - 1) : t[j] # c
    ELSE 0

\* str.partition(c), the first occurrence of c being at i (0: none):
\* <<head, sep, tail>>, sep empty when c does not occur.
PartitionAt(t, c, i) ==
    IF i = 0 THEN <<t, <<>>, <<>>>>
    ELSE <<SubSeq(t, 1, i - 1), <<c>>, SubSeq(t, i + 1, Len(t))>>

Partition(t, c) == PartitionAt(t, c, IndexOf(t, c))

\* str.split(c, maxsplit): at most maxsplit cuts, from the left; i is the
\* position of the first c in t.
RECURSIVE SplitAt(_, _, _, _)
SplitAt(t, c, maxsplit, i) ==
    IF maxsplit = 0 \/ i = 0 THEN <<t>>
    ELSE <<SubSeq(t, 1, i - 1)>>
         \o SplitAt(SubSeq(t, i + 1, Len(t)), c, maxsplit - 1,
                    IndexOf(SubSeq(t, i + 1, Len(t)), c))

Split(t, c, maxsplit) == SplitAt(t, c, maxsplit, IndexOf(t, c))

\* str.split(c) without a limit: a text of n symbols has at most n cuts.
SplitAll(t, c) == Split(t, c, Len(t))

\* int() of the digits left after the sign.
IntOfBody(body, negative) ==
    IF body # <<>> /\ AllDigits(body)
    THEN Returned(IF negative THEN 0 - DigitsVal(body) ELSE DigitsVal(body))
    ELSE Raised

\* int() of a text without surrounding whitespace.
IntOfStripped(s) ==
    IF s # <<>> /\ s[1] \in {"-", "+"} THEN IntOfBody(Tail(s), s[1] = "-")
    ELSE IntOfBody(s, FALSE)

\* int(text): surrounding whitespace and one sign are accepted, then digits.
\* Raised: ValueError.
IntOf(t) == IntOfStripped(Strip(t))

---------------------------------------------------------------------------
(* Span and Spans. *)

\* Span.parse, lines 62-63: a part of the text as a bound, None when the
\* part is empty; plus is the 1 added to the end.  r is int(part).
BoundFromInt(r, plus) == IF r.ok THEN Returned(SomeInt(r.v + plus)) ELSE Raised

BoundOf(part, plus) ==
    IF part = <<>> THEN Returned(NoneInt) ELSE BoundFromInt(IntOf(part), plus)

\* Span.parse, lines 65-67, closing a single index with end = start.
SpanFromBoundsEmptySingle(st, en, sep) ==
    IF ~st.ok \/ ~en.ok THEN Raised
    ELSE IF ~en.v.some /\ sep = <<>>
         THEN Returned([start |-> st.v, end |-> SomeInt(st.v.v)])
         ELSE Returned([start |-> st.v, end |-> en.v])

\* Span.parse, lines 65-67: a single index n is closed with end = n + 1.
SpanFromBounds(st, en, sep) ==
    IF ~st.ok \/ ~en.ok THEN Raised
    ELSE IF ~en.v.some /\ sep = <<>>
         THEN Returned([start |-> st.v, end |-> SomeInt(st.v.v + 1)])
         ELSE Returned([start |-> st.v, end |-> en.v])

\* Span.parse from the partition of its text, the end kept inclusive (the
\* "+ 1" of lines 63 and 66 lost).
SpanFromPartsInclusiveEnd(p) ==
    SpanFromBoundsEmptySingle(BoundOf(p[1], 0), BoundOf(p[3], 0), p[2])

\* Span.parse from the partition of its text.
SpanFromParts(p) == SpanFromBounds(BoundOf(p[1], 0), BoundOf(p[3], 1), p[2])

\* Span.parse as written, but losing the "+ 1" that makes the end exclusive.
SpanParseInclusiveEnd(s) ==
    IF s = <<>> THEN Raised ELSE SpanFromPartsInclusiveEnd(Partition(s, "-"))

\* Span.parse(s).  Raised: the assert on an empty text, or int() refusing a part.
SpanParse(s) == IF s = <<>> THEN Raised ELSE SpanFromParts(Partition(s, "-"))

\* Span.__contains__(i).
SpanContains(sp, i) ==
    IF ~sp.start.some /\ ~sp.end.some THEN TRUE
    ELSE IF ~sp.start.some THEN i < sp.end.v
    ELSE IF ~sp.end.some THEN sp.start.v <= i
    ELSE sp.start.v <= i /\ i < sp.end.v

\* Spans.all(): one Span without bounds.
SpansAll == <<[start |-> NoneInt, end |-> NoneInt]>>

\* The default border-top span-set starting at the first row.
DefaultBorderTopFromFirstRow == <<[start |-> SomeInt(0), end |-> NoneInt]>>

\* The border-top span-set main() builds when no --border-top is given.
DefaultBorderTop == <<[start |-> SomeInt(1), end |-> NoneInt]>>

\* Spans.parse, the pieces parsed: Raised if a piece was refused.
SpansOfResults(parsed) ==
    IF \E k \in DOMAIN parsed : ~parsed[k].ok THEN Raised
    ELSE Returned([k \in DOMAIN parsed |-> parsed[k].v])

SpansOfPieces(pieces) == SpansOfResults([k \in DOMAIN pieces |-> SpanParse(pieces[k])])

\* Spans.parse(v): the spans of the non-empty comma-separated pieces.
SpansParse(v) == SpansOfPieces(SelectSeq(SplitAll(v, ","), LAMBDA s : s # <<>>))

\* Spans.__contains__(i).
SpansContains(spans, i) == \E k \in DOMAIN spans : SpanContains(spans[k], i)


\* A cell coordinate is <<row, col>>, either of which may be None.
\* RowSpans.__contains__(cell).
RowSpansContains(spans, cell) ==
    IF ~cell[1].some THEN FALSE ELSE SpansContains(spans, cell[1].v)

\* ColSpans.__contains__ losing its test for an undefined column.
ColSpansContainsUnguarded(spans, cell) == SpansContains(spans, cell[2].v)

\* ColSpans.__contains__(cell).
ColSpansContains(spans, cell) ==
    IF ~cell[2].some THEN FALSE ELSE SpansContains(spans, cell[2].v)

---------------------------------------------------------------------------
(* decimal.Decimal, as far as RoundNumbers and Percent use it: a sign, a   *)
(* coefficient and the number of fractional digits.                        *)

RECURSIVE Pow10(_)
Pow10(k) == IF k = 0 THEN 1 ELSE 10 * Pow10(k - 1)

\* str.replace(c, r) for a single symbol c.
RECURSIVE Replace(_, _, _)
Replace(t, c, r) ==
    IF t = <<>> THEN <<>>
    ELSE (IF t[1] = c THEN r ELSE <<t[1]>>) \o Replace(Tail(t), c, r)

\* Decimal() of the digits around the point.
DecimalOfParts(p, negative) ==
    IF p[1] \o p[3] # <<>> /\ AllDigits(p[1] \o p[3])
    THEN Returned([neg |-> negative, coef |-> DigitsVal(p[1] \o p[3]),
                   frac |-> Len(p[3])])
    ELSE Raised

\* Decimal() of a text without surrounding whitespace.
DecimalOfStripped(s) ==
    IF s # <<>> /\ s[1] \in {"-", "+"}
    THEN DecimalOfParts(Partition(Tail(s), "."), s[1] = "-")
    ELSE DecimalOfParts(Partition(s, "."), FALSE)

\* Decimal(text): whitespace stripped, one optional sign, digits around at
\* most one point, at least one digit; anything else is InvalidOperation.
DecimalOf(t) == DecimalOfStripped(Strip(t))

\* The quotient q rounded, r of unit being what was cut off.
Rounded(q, r, unit, down) ==
    IF ~down /\ (2 * r > unit \/ (2 * r = unit /\ q % 2 = 1)) THEN q + 1 ELSE q

\* Decimal.quantize cutting digits off: unit is 10 ^ (number of digits cut).
QuantizeBy(d, places, down, unit) ==
    [d EXCEPT !.coef = Rounded(d.coef \div unit, d.coef % unit, unit, down),
              !.frac = places]

\* Decimal.quantize to `places` fractional digits: ROUND_DOWN when down,
\* else the context's ROUND_HALF_EVEN.
Quantize(d, places, down) ==
    IF d.frac <= places
    THEN [d EXCEPT !.coef = d.coef * Pow10(places - d.frac), !.frac = places]
    ELSE QuantizeBy(d, places, down, Pow10(d.frac - places))

\* The digits of a coefficient, with the zeros that bring them past the point.
PadZeros(raw, frac) ==
    IF Len(raw) > frac THEN raw
    ELSE [i \in 1..(frac + 1 - Len(raw)) |-> "0"] \o raw

DecimalStrPadded(d, pad) ==
    (IF d.neg THEN <<"-">> ELSE <<>>)
    \o SubSeq(pad, 1, Len(pad) - d.frac)
    \o (IF d.frac > 0 THEN <<".">> \o SubSeq(pad, Len(pad) - d.frac + 1, Len(pad))
        ELSE <<>>)

\* str(Decimal) of a quantized value (its exponent is -frac <= 0).
DecimalStr(d) == DecimalStrPadded(d, PadZeros(NatStr(d.coef), d.frac))

\* A text without its leading minus / without its one final line feed.
DropMinus(t) == IF t # <<>> /\ t[1] = "-" THEN Tail(t) ELSE t

DropFinalNewline(t) ==
    IF t # <<>> /\ t[Len(t)] = "\n" THEN SubSeq(t, 1, Len(t) - 1) ELSE t

\* ([0-9]+[,.]?)+ : digits with single separators between or after them.
DigitGroups(b) ==
    /\ b # <<>>
    /\ \A i \in DOMAIN b : IsDigit(b[i]) \/ b[i] \in {",", "."}
    /\ IsDigit(b[1])
    /\ \A i \in 1..(Len(b) - 1) : IsDigit(b[i]) \/ IsDigit(b[i + 1])

\* [0-9,.]+
DigitsAndSeparators(b) ==
    /\ b # <<>>
    /\ \A i \in DOMAIN b : IsDigit(b[i]) \/ b[i] \in {",", "."}

\* re.match(r"^-?([0-9]+[,.]?)+$", value) ($ also matches before one final
\* line feed).
MatchesRoundPattern(t) == DigitGroups(DropFinalNewline(DropMinus(t)))

\* re.match(r"^-?[0-9,.]+$", value).
MatchesPercentPattern(t) == DigitsAndSeparators(DropFinalNewline(DropMinus(t)))

---------------------------------------------------------------------------
(* Quoting. *)

\* str.replace(r"\\", r"\\\\"): every pair of backslashes, left to right,
\* becomes four.
RECURSIVE DoubleBackslashPairs(_)
DoubleBackslashPairs(t) ==
    IF Len(t) < 2 THEN t
    ELSE IF t[1] = "\\" /\ t[2] = "\\"
         THEN <<"\\", "\\", "\\", "\\">> \o DoubleBackslashPairs(SubSeq(t, 3, Len(t)))
         ELSE <<t[1]>> \o DoubleBackslashPairs(Tail(t))

\* The characters quote() escapes, in the order of its replace() calls.
QuotedChars == <<"%", "#", "&", "$", "_", "{", "}">>

RECURSIVE EscapeFrom(_, _)
EscapeFrom(t, k) ==
    IF k > Len(QuotedChars) THEN t
    ELSE EscapeFrom(Replace(t, QuotedChars[k], <<"\\", QuotedChars[k]>>), k + 1)

\* quote(text); text is the cell as the reader gives it, None for a cell the
\* line does not have.
quote(text) ==
    IF ~text.some \/ text.v = <<>> THEN <<>>
    ELSE DoubleBackslashPairs(EscapeFrom(Strip(text.v), 1))

---------------------------------------------------------------------------
(* The modifiers.  A modifier is a record: kind (its class), scope ("row"   *)
(* for RowSpans, "col" for ColSpans), spans, and the fields of its class:   *)
(* arg (directive, color or value), wrap_value, decimals, down (rounding is *)
(* ROUND_DOWN), border_top, border_command.                                 *)

\* f"{x}" of a text that may be None.
Format(arg) == IF arg.some THEN arg.v ELSE <<"None">>

Modifier(kind, scope, spans) ==
    [kind |-> kind, scope |-> scope, spans |-> spans, arg |-> NoneText,
     wrap_value |-> TRUE, decimals |-> 0, down |-> FALSE,
     border_top |-> FALSE, border_command |-> <<"midrule">>]

\* The class attribute priority: WrapperBase's 100 unless the class sets one.
Priority(w) ==
    CASE w.kind \in {"RoundNumbers", "Percent"} -> 200
      [] w.kind = "BackgroundColor" -> 10
      [] w.kind = "RowWrapper" -> 1
      [] w.kind = "RowBorderWrapper" -> 0
      [] OTHER -> 100

\* Wrapper.apply on the stripped value.
WrapperApplyStripped(w, v) ==
    IF v = <<>> THEN <<>>
    ELSE IF w.wrap_value THEN <<"\\">> \o Format(w.arg) \o <<"{">> \o v \o <<"}">>
    ELSE <<"\\">> \o Format(w.arg) \o (IF v[1] = "\\" THEN <<>> ELSE <<" ">>) \o v

\* Wrapper.apply
WrapperApply(w, value) == WrapperApplyStripped(w, Strip(value))

\* BackgroundColor.apply
BackgroundColorApply(w, value) ==
    <<"\\", "cellcolor", "{">> \o Format(w.arg) \o <<"}">> \o value

\* TextColor.apply
TextColorApply(w, value) ==
    <<"\\", "color", "{">> \o Format(w.arg) \o <<"}", "{">> \o value \o <<"}">>

\* Dot.apply
DotApply(w, value) ==
    IF Strip(value) # <<>> THEN <<"\\", "textbullet">> ELSE value

\* CheckmarkIfValue.apply / CrossmarkIfValue.apply, mark being cmark or xmark.
MarkIfValueApply(w, value, mark) ==
    IF w.arg.some /\ Strip(value) = w.arg.v THEN <<"\\", mark>> ELSE value

\* str.strip("- "): leading and trailing dashes and blanks removed.
RECURSIVE StripDashes(_)
StripDashes(t) ==
    IF t # <<>> /\ t[1] \in {"-", " "} THEN StripDashes(Tail(t))
    ELSE IF t # <<>> /\ t[Len(t)] \in {"-", " "}
         THEN StripDashes(SubSeq(t, 1, Len(t) - 1))
         ELSE t

\* str.split("\n- "): the lines of a dash-bulleted list.
RECURSIVE SplitItems(_, _)
SplitItems(t, acc) ==
    IF t = <<>> THEN <<acc>>
    ELSE IF Len(t) >= 3 /\ t[1] = "\n" /\ t[2] = "-" /\ t[3] = " "
         THEN <<acc>> \o SplitItems(SubSeq(t, 4, Len(t)), <<>>)
         ELSE SplitItems(Tail(t), Append(acc, t[1]))

RECURSIVE JoinItems(_)
JoinItems(lines) ==
    IF lines = <<>> THEN <<>>
    ELSE <<"\n", "\\", "item", " ">> \o lines[1] \o JoinItems(Tail(lines))

\* List.apply
ListApply(w, value) ==
    IF Strip(value) = <<>> THEN <<>>
    ELSE <<"\\", "begin", "{", "tabitemize", "}">>
         \o JoinItems(SplitItems(StripDashes(value), <<>>))
         \o <<"\n", "\\", "end", "{", "tabitemize", "}">>

\* RoundNumbers.apply, lines 336-337: "(n)" is read as "-n".
Unparenthesized(value) ==
    IF Len(value) >= 2 /\ value[1] = "(" /\ value[Len(value)] = ")"
    THEN <<"-">> \o SubSeq(value, 2, Len(value) - 1)
    ELSE value

\* RoundNumbers.apply, lines 340-348, d being Decimal() of the text.
RoundDecimal(w, d) ==
    IF ~d.ok THEN Raised
    ELSE IF w.decimals < 0
         THEN Returned(DecimalStr(Quantize(
                  [d.v EXCEPT !.frac = d.v.frac - w.decimals], 0, FALSE)))
         ELSE Returned(DecimalStr(Quantize(d.v, w.decimals, w.down)))

\* RoundNumbers.apply after the parentheses are read.
RoundNumbersApplyTo(w, v) ==
    IF MatchesRoundPattern(v) THEN RoundDecimal(w, DecimalOf(Replace(v, ",", <<>>)))
    ELSE IF Strip(v) = <<".", ".", ".">>
         THEN Returned(<<"{", "\\", "dots", "}">>)
         ELSE Returned(<<"{">> \o v \o <<"}">>)

\* RoundNumbers.apply.  Raised: Decimal() refusing the text (InvalidOperation).
RoundNumbersApply(w, value) == RoundNumbersApplyTo(w, Unparenthesized(value))

\* Percent.apply, lines 366-369, d being Decimal() of the text.
PercentDecimal(w, d) ==
    IF ~d.ok THEN Raised
    ELSE Returned(<<"\\", "pct", "{">>
             \o DecimalStr(Quantize([d.v EXCEPT !.coef = d.v.coef * 100],
                                    IF w.decimals < 0 THEN 0 ELSE w.decimals,
                                    FALSE))
             \o <<"}">>)

\* Percent.apply.  Raised: Decimal() refusing the text (InvalidOperation).
PercentApply(w, value) ==
    IF MatchesPercentPattern(value)
    THEN PercentDecimal(w, DecimalOf(Replace(value, ",", <<>>)))
    ELSE Returned(value)

\* w.apply(value), by the class of w.
Apply(w, value) ==
    CASE w.kind \in {"Wrapper", "Bold", "Italic"} -> Returned(WrapperApply(w, value))
      [] w.kind = "BackgroundColor" -> Returned(BackgroundColorApply(w, value))
      [] w.kind = "TextColor" -> Returned(TextColorApply(w, value))
      [] w.kind = "Dot" -> Returned(DotApply(w, value))
      [] w.kind = "CheckmarkIfValue" -> Returned(MarkIfValueApply(w, value, "cmark"))
      [] w.kind = "CrossmarkIfValue" -> Returned(MarkIfValueApply(w, value, "xmark"))
      [] w.kind = "List" -> Returned(ListApply(w, value))
      [] w.kind = "RoundNumbers" -> RoundNumbersApply(w, value)
      [] w.kind = "Percent" -> PercentApply(w, value)
      [] OTHER -> Returned(value)

\* RowBorderWrapper.apply_row
RowBorderApplyRow(w, value) ==
    IF w.border_top THEN <<"\\">> \o w.border_command \o <<"\n">> \o value
    ELSE value

\* RowWrapper.apply_row returning the empty row text as it is.
RowWrapperApplyRowKeepEmpty(w, value) ==
    IF value # <<>> THEN value \o <<"\n", "\\", "\\", "\n">> ELSE value

\* RowWrapper.apply_row
RowWrapperApplyRow(w, value) ==
    IF value # <<>> THEN value \o <<"\n", "\\", "\\", "\n">>
    ELSE <<"\\", "\\", "\n">>

\* w.apply_row(value): WrapperBase's identity unless the class overrides it.
ApplyRow(w, value) ==
    CASE w.kind = "RowBorderWrapper" -> RowBorderApplyRow(w, value)
      [] w.kind = "RowWrapper" -> RowWrapperApplyRow(w, value)
      [] OTHER -> value

\* cell in w.spans, for the span-set class the modifier was parsed with.
InSpans(w, cell) ==
    IF w.scope = "row" THEN RowSpansContains(w.spans, cell)
    ELSE ColSpansContains(w.spans, cell)

---------------------------------------------------------------------------
(* The registry and the parsing of a modifier. *)

\* MODIFIERS: the class registered under a key.
MODIFIERS ==
    [key \in {<<"bold">>, <<"italic">>, <<"bg">>, <<"fg">>, <<"round">>,
              <<"percent">>, <<"dot">>, <<"list">>, <<"cmark", "-", "if">>,
              <<"xmark", "-", "if">>, <<"wrap">>} |->
        CASE key = <<"bold">> -> "Bold"
          [] key = <<"italic">> -> "Italic"
          [] key = <<"bg">> -> "BackgroundColor"
          [] key = <<"fg">> -> "TextColor"
          [] key = <<"round">> -> "RoundNumbers"
          [] key = <<"percent">> -> "Percent"
          [] key = <<"dot">> -> "Dot"
          [] key = <<"list">> -> "List"
          [] key = <<"cmark", "-", "if">> -> "CheckmarkIfValue"
          [] key = <<"xmark", "-", "if">> -> "CrossmarkIfValue"
          [] OTHER -> "Wrapper"]

\* RoundNumbers.parse from the pieces of its argument.
RoundNumbersFrom(scope, spans, decimals, down) ==
    IF ~decimals.ok THEN Raised
    ELSE Returned([Modifier("RoundNumbers", scope, spans) EXCEPT
             !.decimals = decimals.v, !.down = down])

RoundNumbersFromPieces(scope, spans, pieces) ==
    RoundNumbersFrom(scope, spans, IntOf(pieces[1]),
                     Len(pieces) > 1 /\ pieces[2] = <<"down">>)

\* RoundNumbers.parse.  Raised: args is None (no split), or int() refusing
\* the first piece.
RoundNumbersParse(scope, spans, args) ==
    IF ~args.some THEN Raised
    ELSE RoundNumbersFromPieces(scope, spans, SplitAll(args.v, ","))

\* Percent.parse, decimals being int(args).
PercentFrom(scope, spans, decimals) ==
    IF ~decimals.ok THEN Raised
    ELSE Returned([Modifier("Percent", scope, spans) EXCEPT !.decimals = decimals.v])

\* Percent.parse.  Raised: int() refusing args (None included).
PercentParse(scope, spans, args) ==
    IF ~args.some THEN Raised ELSE PercentFrom(scope, spans, IntOf(args.v))

\* <class>.parse(spans, args).  Raised: the assert of a class without
\* argument, or the parse of a numeric argument.
ModifierParse(kind, scope, spans, args) ==
    CASE kind = "Bold" ->
           IF args.some THEN Raised
           ELSE Returned([Modifier(kind, scope, spans) EXCEPT
                    !.arg = SomeText(<<"bfseries">>), !.wrap_value = FALSE])
      [] kind = "Italic" ->
           IF args.some THEN Raised
           ELSE Returned([Modifier(kind, scope, spans) EXCEPT
                    !.arg = SomeText(<<"itshape">>), !.wrap_value = FALSE])
      [] kind = "Dot" ->
           IF args.some THEN Raised ELSE Returned(Modifier(kind, scope, spans))
      [] kind = "RoundNumbers" -> RoundNumbersParse(scope, spans, args)
      [] kind = "Percent" -> PercentParse(scope, spans, args)
      [] OTHER -> Returned([Modifier(kind, scope, spans) EXCEPT !.arg = args])

\* parse_modifier, lines 436-438: the spans parsed, the class looked up and
\* its parse called.
ModifierFromParts(spans, key, args, scope) ==
    IF ~spans.ok THEN Raised
    ELSE IF key \notin DOMAIN MODIFIERS THEN Raised
    ELSE ModifierParse(MODIFIERS[key], scope, spans.v, args)

\* parse_modifier, lines 427-434: spec is m.split(":", 2).
ModifierFromSpec(spec, scope) ==
    IF Len(spec) < 2 THEN Raised
    ELSE ModifierFromParts(SpansParse(spec[1]), spec[2],
                           IF Len(spec) = 3 THEN SomeText(spec[3]) ELSE NoneText,
                           scope)

\* parse_modifier(m, spans_cls).  Raised: ValueError for a spec without
\* colon, a span text int() refuses, KeyError for an unregistered key, or
\* the class's parse raising.
parse_modifier(m, scope) == ModifierFromSpec(Split(m, ":", 2), scope)

\* w put into the sorted list rest after its first n members.
InsertAt(rest, w, n) == SubSeq(rest, 1, n) \o <<w>> \o SubSeq(rest, n + 1, Len(rest))

\* list.sort(key=priority) without reverse=True: ascending, stable.
RECURSIVE SortAscending(_)
SortAscending(ws) ==
    IF ws = <<>> THEN <<>>
    ELSE InsertAt(SortAscending(SubSeq(ws, 1, Len(ws) - 1)), ws[Len(ws)],
                  Cardinality({i \in 1..(Len(ws) - 1) :
                                   Priority(ws[i]) <= Priority(ws[Len(ws)])}))

\* list.sort(key=priority, reverse=True): descending, modifiers of equal
\* priority keeping the order they were appended in.
RECURSIVE SortByPriority(_)
SortByPriority(ws) ==
    IF ws = <<>> THEN <<>>
    ELSE InsertAt(SortByPriority(SubSeq(ws, 1, Len(ws) - 1)), ws[Len(ws)],
                  Cardinality({i \in 1..(Len(ws) - 1) :
                                   Priority(ws[i]) >= Priority(ws[Len(ws)])}))

\* `x if text else default` around a parse: None and "" are both falsy.
Given(text) == text.some /\ text.v # <<>>

\* main(), lines 495-516, every text parsed: the span-sets and the sorted
\* list of modifiers.
ConfigurationFrom(c, rowSpans, colSpans, topSpans, rowMods, colMods) ==
    IF \/ ~rowSpans.ok \/ ~colSpans.ok \/ ~topSpans.ok
       \/ \E k \in DOMAIN rowMods : ~rowMods[k].ok
       \/ \E k \in DOMAIN colMods : ~colMods[k].ok
    THEN Raised
    ELSE Returned(
           [rows |-> rowSpans.v,
            cols |-> colSpans.v,
            skip_cols |-> IF Given(c.skip_cols) THEN SplitAll(c.skip_cols.v, ",")
                          ELSE <<>>,
            wrappers |-> SortByPriority(
                <<[Modifier("RowBorderWrapper", "row", topSpans.v) EXCEPT
                      !.border_top = c.border_mid,
                      !.border_command = c.border_mid_cmd],
                  Modifier("RowWrapper", "row", SpansAll)>>
                \o [k \in DOMAIN rowMods |-> rowMods[k].v]
                \o [k \in DOMAIN colMods |-> colMods[k].v])])

\* `Spans.parse(text) if text else default`
SpansOr(text, default) ==
    IF Given(text) THEN SpansParse(text.v) ELSE Returned(default)

\* main(), lines 495-516: the span-sets and the sorted list of modifiers.
\* Raised: any parse raising.
Configuration(c) ==
    ConfigurationFrom(c,
        SpansOr(c.rows, SpansAll),
        SpansOr(c.cols, SpansAll),
        SpansOr(c.border_top, DefaultBorderTop),
        [k \in DOMAIN c.row_modifiers |-> parse_modifier(c.row_modifiers[k], "row")],
        [k \in DOMAIN c.col_modifiers |-> parse_modifier(c.col_modifiers[k], "col")])

---------------------------------------------------------------------------
(* The row source and the renderer.  A file is the sequence of its lines   *)
(* as csv.reader splits them: each line a sequence of cell texts.          *)

\* Spans.filter's test for the item at index i of the iterable.
FilterAdmits(spans, i) == SpansContains(spans, i)

\* Spans.filter(iterable) as a list: the items admitted, in order.
RECURSIVE SpansFilter(_, _, _)
SpansFilter(spans, items, i) ==
    IF i >= Len(items) THEN <<>>
    ELSE (IF FilterAdmits(spans, i) THEN <<items[i + 1]>> ELSE <<>>)
         \o SpansFilter(spans, items, i + 1)

\* csv.DictReader's row for one line: a value for every field name, None
\* (restval) where the line is too short; a repeated name keeps its last.
DictRow(fieldnames, line) ==
    [name \in {fieldnames[i] : i \in DOMAIN fieldnames} |->
        LET last == CHOOSE i \in DOMAIN fieldnames :
                        /\ fieldnames[i] = name
                        /\ \A j \in DOMAIN fieldnames : fieldnames[j] = name => j <= i
        IN  IF last <= Len(line) THEN SomeText(line[last]) ELSE NoneText]

\* print_table, line 179, putting the header row after the rows read.
TableFromHeaderLast(c, fieldnames, lines, kept) ==
    Returned([cols |-> kept,
              data |-> [k \in DOMAIN lines |-> DictRow(fieldnames, lines[k])]
                       \o (IF c.skip_headers THEN <<>>
                           ELSE <<[name \in {kept[i] : i \in DOMAIN kept} |->
                                       SomeText(name)]>>)])

\* print_table, lines 173-179, the header line read: kept are the columns
\* selected and not skipped, lines the non-blank lines after the header.
TableFrom(c, fieldnames, lines, kept) ==
    Returned([cols |-> kept,
              data |-> (IF c.skip_headers THEN <<>>
                        ELSE <<[name \in {kept[i] : i \in DOMAIN kept} |->
                                    SomeText(name)]>>)
                       \o [k \in DOMAIN lines |-> DictRow(fieldnames, lines[k])]])

\* The columns the span-set selects, without the skipped ones.
KeptColumns(conf, fieldnames) ==
    SelectSeq(SpansFilter(conf.cols, fieldnames, 0),
              LAMBDA n : \A k \in DOMAIN conf.skip_cols : conf.skip_cols[k] # n)

\* print_table, lines 173-179: the selected columns and the rows to filter.
\* Raised: start_at lines cannot be skipped, or there is no header line.
OpenedTable(c, conf) ==
    IF c.start_at >= Len(c.file) THEN Raised
    ELSE TableFrom(c, c.file[c.start_at + 1],
                   SelectSeq(SubSeq(c.file, c.start_at + 2, Len(c.file)),
                             LAMBDA l : l # <<>>),
                   KeptColumns(conf, c.file[c.start_at + 1]))

\* simple_row joining the cells whether or not any has a value.
RECURSIVE JoinCells(_)
JoinCells(values) ==
    IF values = <<>> THEN <<>>
    ELSE IF Len(values) = 1 THEN values[1]
    ELSE values[1] \o <<" ", "&", " ">> \o JoinCells(Tail(values))

\* simple_row(values, has_value)
simple_row(values, has_value) == IF has_value THEN JoinCells(values) ELSE <<>>

\* print_row's inner loop for one cell: wrapper.wrap(cell, value) for every
\* wrapper from the k-th on.  log records each apply() call made.
RECURSIVE CellPass(_, _, _, _, _)

\* The k-th wrapper's apply() having given r.
CellPassAfter(ws, k, cell, value, log, r) ==
    IF ~r.ok THEN [ok |-> FALSE, v |-> value, log |-> log]
    ELSE CellPass(ws, k + 1, cell, r.v,
             Append(log, [col |-> cell[2].v, w |-> k,
                          input |-> value, output |-> r.v]))

CellPass(ws, k, cell, value, log) ==
    IF k > Len(ws) THEN [ok |-> TRUE, v |-> value, log |-> log]
    ELSE IF InSpans(ws[k], cell)
         THEN CellPassAfter(ws, k, cell, value, log, Apply(ws[k], value))
         ELSE CellPass(ws, k + 1, cell, value, log)

\* print_row's last loop: wrapper.wrap_row(row, value) for every wrapper
\* from the k-th on.  log records each apply_row() call made.
RECURSIVE RowPass(_, _, _, _, _)

\* The k-th wrapper's apply_row() having given r.
RowPassAfter(ws, k, row, value, log, r) ==
    RowPass(ws, k + 1, row, r, Append(log, [w |-> k, input |-> value, output |-> r]))

RowPass(ws, k, row, value, log) ==
    IF k > Len(ws) THEN [v |-> value, log |-> log]
    ELSE IF InSpans(ws[k], <<SomeInt(row), NoneInt>>)
         THEN RowPassAfter(ws, k, row, value, log, ApplyRow(ws[k], value))
         ELSE RowPass(ws, k + 1, row, value, log)

RECURSIVE Flatten(_)
Flatten(ss) == IF ss = <<>> THEN <<>> ELSE ss[1] \o Flatten(Tail(ss))

\* print_row, lines 197-199: the row text through the wrappers' wrap_row.
PrintedLine(cells, has_value, line) ==
    [ok |-> \A c \in DOMAIN cells : cells[c].ok,
     text |-> line.v,
     has_value |-> has_value,
     cellLog |-> Flatten([c \in DOMAIN cells |-> cells[c].log]),
     rowLog |-> line.log]

\* print_row, lines 193-196: the cells wrapped and joined.
PrintedCells(row, ws, has_value, cells) ==
    PrintedLine(cells, has_value,
        RowPass(ws, 1, row,
                simple_row([c \in DOMAIN cells |-> cells[c].v], has_value), <<>>))

\* print_row, lines 188-192: the cells quoted.
PrintedQuoted(row, ws, quoted) ==
    PrintedCells(row, ws, \E c \in DOMAIN quoted : quoted[c] # <<>>,
        [c \in DOMAIN quoted |->
            CellPass(ws, 1, <<SomeInt(row), SomeInt(c - 1)>>, quoted[c], <<>>)])

\* print_row(row, data, cols, wrappers, simple_row): the text printed and
\* the calls made.  ok is FALSE when an apply() raised: nothing is printed.
PrintedRow(row, record, columns, ws) ==
    PrintedQuoted(row, ws, [c \in DOMAIN columns |-> quote(record[columns[c]])])

---------------------------------------------------------------------------
(* The command lines and files the run is checked on. *)

\* a,b / 1,"(5)" / 2,10
ExampleFile == << <<<<"a">>, <<"b">>>>, <<<<"1">>, <<"(", "5", ")">>>>,
                  <<<<"2">>, <<"1", "0">>>> >>

\* A header, a numeric row, a row of empty cells, a blank line, a short row
\* and a row whose first cell Decimal() refuses.
MixedFile == << <<<<"a">>, <<"b">>>>,
                <<<<"1", ".", "5">>, <<"x", "%">>>>,
                <<<<>>, <<" ">>>>,
                <<>>,
                <<<<"7">>>>,
                <<<<".">>, <<"0", ".", "2", "5">>>> >>

Files == {ExampleFile, MixedFile}

\* Modifier specs the program accepts and renders.
ValidModifierTexts ==
    { <<"0", ":", "round", ":", "0">>,
      <<"0", ":", "round", ":", "1", ",", "down">>,
      <<"0", ":", "percent", ":", "1">>,
      <<"-", ":", "fg", ":", "red">>,
      <<"0", ":", "bg", ":", "red">>,
      <<"1", ":", "bold">>,
      <<"0", ":", "wrap", ":", "emph">>,
      <<"0", ":", "dot">>,
      <<"2", ":", "cmark", "-", "if", ":", "7">>,
      <<"0", ":", "list", ":", "x">> }

\* Modifier specs naming a key that is not registered.
UnknownKeyTexts == { <<"0", ":", "blink">>, <<"0", ":", "Bold", ":", "x">> }

\* Modifier specs whose span text is malformed, or that have no span part.
MalformedSpanTexts == { <<"x", ":", "bold">>, <<"1", "-", "-", ":", "bold">>, <<"bold">> }

\* Modifier specs with an argument for a kind that takes none.
ExtraArgumentTexts ==
    { <<"0", ":", "bold", ":", "x">>, <<"0", ":", "italic", ":", "x">>,
      <<"0", ":", "dot", ":", "x">> }

\* Modifier specs without the argument their kind takes.
MissingArgumentTexts ==
    { <<"0", ":", "wrap">>, <<"0", ":", "bg">>, <<"0", ":", "fg">>,
      <<"0", ":", "round">>, <<"0", ":", "percent">> }

ErrorModifierTexts ==
    UnknownKeyTexts \cup MalformedSpanTexts \cup ExtraArgumentTexts
    \cup MissingArgumentTexts

\* The options as click gives them when the command line names none.
DefaultOptions(file) ==
    [file |-> file, start_at |-> 0, rows |-> NoneText, cols |-> NoneText,
     skip_cols |-> NoneText, row_modifiers |-> <<>>, col_modifiers |-> <<>>,
     border_top |-> NoneText, border_mid |-> TRUE,
     border_mid_cmd |-> <<"midrule">>, border_bottom |-> TRUE,
     skip_headers |-> TRUE]

\* The sequences over S of length at most n.
SeqsUpTo(S, n) == UNION {[1..k -> S] : k \in 0..n}

\* Default options with up to MaxModifiers valid modifiers (row and column
\* modifiers together), in every order.
PipelineCommandLines ==
    UNION { UNION { { [DefaultOptions(f) EXCEPT !.row_modifiers = r,
                                                !.col_modifiers = c] :
                        f \in Files,
                        r \in [1..j -> ValidModifierTexts],
                        c \in [1..(n - j) -> ValidModifierTexts] } :
                    j \in 0..n } :
            n \in 0..MaxModifiers }

\* Default options with one erroneous modifier, alone or with a valid one.
ErrorCommandLines ==
    { [DefaultOptions(f) EXCEPT !.row_modifiers = r, !.col_modifiers = c] :
        f \in Files,
        r \in SeqsUpTo(ErrorModifierTexts, 1),
        c \in SeqsUpTo(ErrorModifierTexts \cup {<<"0", ":", "bg", ":", "red">>}, 1) }

\* Every combination of the options, with at most one modifier.
OptionCommandLines ==
    { [file |-> f, start_at |-> s, rows |-> r, cols |-> c, skip_cols |-> k,
       row_modifiers |-> rm, col_modifiers |-> cm, border_top |-> t,
       border_mid |-> bm, border_mid_cmd |-> cmd, border_bottom |-> bb,
       skip_headers |-> sh] :
        f \in Files, s \in 0..MaxStartAt,
        r \in {NoneText, SomeText(<<"1", "-">>), SomeText(<<"0", ",", "2">>),
               SomeText(<<"2", "-", "0">>), SomeText(<<"x">>)},
        c \in {NoneText, SomeText(<<"1">>)},
        k \in {NoneText, SomeText(<<"b">>)},
        rm \in {<<>>, << <<"1", ":", "bold">> >>},
        cm \in {<<>>, << <<"0", ":", "fg", ":", "red">> >>},
        t \in {NoneText, SomeText(<<"0">>)},
        bm \in BOOLEAN, cmd \in {<<"midrule">>, <<"hline">>},
        bb \in BOOLEAN, sh \in BOOLEAN }

CommandLines ==
    PipelineCommandLines \cup ErrorCommandLines \cup OptionCommandLines

---------------------------------------------------------------------------
(* The run of main(). *)

idleSpan == [origin |-> "none", ok |-> FALSE,
             v |-> [start |-> NoneInt, end |-> NoneInt]]

idleProbe == [kind |-> "none", i |-> 0, in |-> FALSE]

idleRound == [step |-> "idle", args |-> NoneText, cell |-> <<>>,
              decimals |-> 0, result |-> <<>>]

Init ==
    /\ cfg \in CommandLines
    /\ pc = "start"
    /\ rows = <<>>
    /\ cols = <<>>
    /\ wrappers = <<>>
    /\ data = <<>>
    /\ cursor = 0
    /\ rowNo = 0
    /\ out = <<>>
    /\ cellLog = <<>>
    /\ rowLog = <<>>
    /\ emitted = <<>>
    /\ spanText = <<>>
    /\ span = idleSpan
    /\ probe = idleProbe
    /\ roundCall = idleRound

\* main() going on from the configuration, or ending on its exception.
Configured(conf) ==
    IF conf.ok
    THEN /\ pc' = "table"
         /\ rows' = conf.v.rows
         /\ wrappers' = conf.v.wrappers
    ELSE /\ pc' = "aborted"
         /\ UNCHANGED <<rows, wrappers>>

\* main(), lines 495-516: options parsed, modifiers built and sorted.
Configure ==
    /\ pc = "start"
    /\ Configured(Configuration(cfg))
    /\ UNCHANGED <<cfg, cols, data, cursor, rowNo, out, cellLog, rowLog, emitted,
                   spanText, span, probe, roundCall>>

\* print_table going on with the opened table, or ending on its exception.
Opened(t) ==
    IF t.ok
    THEN /\ pc' = "rows"
         /\ cols' = t.v.cols
         /\ data' = t.v.data
    ELSE /\ pc' = "failed"
         /\ UNCHANGED <<cols, data>>

\* print_table, lines 170-179: the reader opened, the columns selected.
OpenTable ==
    /\ pc = "table"
    /\ Opened(OpenedTable(cfg, Configuration(cfg).v))
    /\ UNCHANGED <<cfg, rows, wrappers, cursor, rowNo, out, cellLog, rowLog,
                   emitted, spanText, span, probe, roundCall>>

\* The row number print_table passes to print_row, were it the row's index
\* in the source.
RowIndexInSource(sourceIndex, position) == sourceIndex

\* The row number print_table passes to print_row: enumerate() counts the
\* rows the filter yields.
RowIndex(sourceIndex, position) == position

\* Spans.filter's loop passing over a row the span-set does not contain.
SkipRow ==
    /\ pc = "rows"
    /\ cursor < Len(data)
    /\ ~FilterAdmits(rows, cursor)
    /\ cursor' = cursor + 1
    /\ UNCHANGED <<pc, cfg, rows, cols, wrappers, data, rowNo, out, cellLog,
                   rowLog, emitted, spanText, span, probe, roundCall>>

\* print_row having printed r as row number row, or raised.
Printed(row, r) ==
    IF r.ok
    THEN /\ out' = Append(out, [call |-> "row", text |-> r.text])
         /\ emitted' = Append(emitted, [source |-> cursor, row |-> row])
         /\ cellLog' = r.cellLog
         /\ rowLog' = r.rowLog
         /\ cursor' = cursor + 1
         /\ rowNo' = rowNo + 1
         /\ pc' = pc
    ELSE /\ pc' = "failed"
         /\ UNCHANGED <<out, emitted, cellLog, rowLog, cursor, rowNo>>

\* print_table's loop body: print_row for the next row the filter yields.
PrintRow ==
    /\ pc = "rows"
    /\ cursor < Len(data)
    /\ FilterAdmits(rows, cursor)
    /\ Printed(RowIndex(cursor, rowNo),
               PrintedRow(RowIndex(cursor, rowNo), data[cursor + 1], cols, wrappers))
    /\ UNCHANGED <<cfg, rows, cols, wrappers, data, spanText, span, probe, roundCall>>

\* main's closing rule printed whatever border_bottom says.
ClosingRuleAlways(c) == <<[call |-> "rule", text |-> <<"\\", "midrule", "\n">>]>>

\* main(), lines 545-546: what is printed after print_table returns.
ClosingRule(c) ==
    IF c.border_bottom
    THEN <<[call |-> "rule", text |-> <<"\\", "midrule", "\n">>]>>
    ELSE <<>>

\* print_table's loop exhausted, then main's end.
Finish ==
    /\ pc = "rows"
    /\ cursor >= Len(data)
    /\ out' = out \o ClosingRule(cfg)
    /\ pc' = "done"
    /\ UNCHANGED <<cfg, rows, cols, wrappers, data, cursor, rowNo, cellLog,
                   rowLog, emitted, spanText, span, probe, roundCall>>

Next == Configure \/ OpenTable \/ SkipRow \/ PrintRow \/ Finish

Spec == Init /\ [][Next]_vars

---------------------------------------------------------------------------
(* Span.parse and Span.__contains__ on their own: every text of at most    *)
(* MaxSpanLen symbols, every index from -MaxIndex to MaxIndex.             *)

SpanAlphabet == {"0", "1", "2", "-", "x"}

SpanTexts == UNION {[1..n -> SpanAlphabet] : n \in 0..MaxSpanLen}

idleRun ==
    /\ pc = "idle"
    /\ cfg = DefaultOptions(ExampleFile)
    /\ rows = <<>>
    /\ cols = <<>>
    /\ wrappers = <<>>
    /\ data = <<>>
    /\ cursor = 0
    /\ rowNo = 0
    /\ out = <<>>
    /\ cellLog = <<>>
    /\ rowLog = <<>>
    /\ emitted = <<>>

SpanInit ==
    /\ idleRun
    /\ spanText \in SpanTexts
    /\ span = idleSpan
    /\ probe = idleProbe
    /\ roundCall = idleRound

\* The span kept from what Span.parse gave.
Parsed(r) ==
    IF r.ok THEN [origin |-> "parse", ok |-> TRUE, v |-> r.v]
    ELSE [idleSpan EXCEPT !.origin = "parse"]

\* Span.parse(spanText)
ParseSpan ==
    /\ span.origin = "none"
    /\ span' = Parsed(SpanParse(spanText))
    /\ UNCHANGED <<runVars, spanText, probe, roundCall>>

\* Spans.all(): its one Span.
AllSpan ==
    /\ span.origin = "none"
    /\ spanText = <<>>
    /\ span' = [origin |-> "all", ok |-> TRUE, v |-> SpansAll[1]]
    /\ UNCHANGED <<runVars, spanText, probe, roundCall>>

\* main's default border-top span-set: its one Span.
DefaultSpan ==
    /\ span.origin = "none"
    /\ spanText = <<>>
    /\ span' = [origin |-> "default", ok |-> TRUE, v |-> DefaultBorderTop[1]]
    /\ UNCHANGED <<runVars, spanText, probe, roundCall>>

\* i in span
Contains ==
    /\ span.ok
    /\ probe.kind = "none"
    /\ \E i \in (0 - MaxIndex)..MaxIndex :
          probe' = [kind |-> "span", i |-> i, in |-> SpanContains(span.v, i)]
    /\ UNCHANGED <<runVars, spanText, span, roundCall>>

SpanNext == ParseSpan \/ AllSpan \/ DefaultSpan \/ Contains

SpanSpec == SpanInit /\ [][SpanNext]_vars

---------------------------------------------------------------------------
(* RoundNumbers on its own: every integer cell from -MaxRoundValue to      *)
(* MaxRoundValue under a few argument texts.                               *)

\* str(v) for an integer v.
IntText(v) == IF v < 0 THEN <<"-">> \o NatStr(0 - v) ELSE NatStr(v)

RoundArgTexts == { <<"-", "1">>, <<"-", "2">>, <<"-", "3">>, <<"0">> }

RoundInit ==
    /\ idleRun
    /\ spanText = <<>>
    /\ span = idleSpan
    /\ probe = idleProbe
    /\ \E a \in RoundArgTexts, v \in (0 - MaxRoundValue)..MaxRoundValue :
          roundCall = [idleRound EXCEPT !.args = SomeText(a), !.cell = IntText(v)]

\* The call after RoundNumbers.parse gave m.
RoundParsed(m) ==
    IF m.ok THEN [roundCall EXCEPT !.step = "parsed", !.decimals = m.v.decimals]
    ELSE [roundCall EXCEPT !.step = "rejected"]

\* RoundNumbers.parse(spans, args)
RoundParse ==
    /\ roundCall.step = "idle"
    /\ roundCall' = RoundParsed(RoundNumbersParse("col", SpansAll, roundCall.args))
    /\ UNCHANGED <<runVars, spanVars>>

\* The call after RoundNumbers.apply gave r.
RoundApplied(r) ==
    IF r.ok THEN [roundCall EXCEPT !.step = "applied", !.result = r.v]
    ELSE [roundCall EXCEPT !.step = "raised"]

\* RoundNumbers.apply(cell)
RoundApply ==
    /\ roundCall.step = "parsed"
    /\ roundCall' = RoundApplied(RoundNumbersApply(
                        RoundNumbersParse("col", SpansAll, roundCall.args).v,
                        roundCall.cell))
    /\ UNCHANGED <<runVars, spanVars>>

RoundNext == RoundParse \/ RoundApply

RoundSpec == RoundInit /\ [][RoundNext]_vars

---------------------------------------------------------------------------
(* The textual forms of a range, read off the text itself. *)

IsNumeral(t) == t # <<>> /\ AllDigits(t)

\* The part of t before its k-th symbol, and the part after it.
Before(t, k) == SubSeq(t, 1, k - 1)

After(t, k) == SubSeq(t, k + 1, Len(t))

\* "n", "a-b", "a-", "-b", or "other" for any other text.
Form(t) ==
    IF IsNumeral(t) THEN "n"
    ELSE IF \E k \in DOMAIN t :
               t[k] = "-" /\ IsNumeral(Before(t, k)) /\ IsNumeral(After(t, k))
         THEN "a-b"
    ELSE IF Len(t) >= 2 /\ t[Len(t)] = "-" /\ IsNumeral(Before(t, Len(t))) THEN "a-"
    ELSE IF Len(t) >= 2 /\ t[1] = "-" /\ IsNumeral(Tail(t)) THEN "-b"
    ELSE "other"

\* The numbers a and b a text of one of the forms names (0 where absent).
LowOf(t) ==
    IF Form(t) = "n" THEN DigitsVal(t)
    ELSE IF Form(t) = "-b" THEN 0
    ELSE DigitsVal(Before(t, CHOOSE k \in DOMAIN t : t[k] = "-"))

HighOf(t) ==
    IF Form(t) = "n" THEN DigitsVal(t)
    ELSE IF Form(t) = "a-" THEN 0
    ELSE DigitsVal(After(t, CHOOSE k \in DOMAIN t : t[k] = "-"))

\* C3, as stated: membership in a parsed span is i = n for 'n', a <= i <= b
\* for 'a-b', i >= a for 'a-', and 0 <= i <= b for '-b', for every integer i.
C3_MembershipAsStated ==
    (probe.kind = "span" /\ span.origin = "parse" /\ Form(spanText) # "other") =>
        (probe.in <=>
            CASE Form(spanText) = "n" -> probe.i = LowOf(spanText)
              [] Form(spanText) = "a-b" ->
                    LowOf(spanText) <= probe.i /\ probe.i <= HighOf(spanText)
              [] Form(spanText) = "a-" -> LowOf(spanText) <= probe.i
              [] Form(spanText) = "-b" -> 0 <= probe.i /\ probe.i <= HighOf(spanText))

\* C3, amended: Span.parse accepts each form and builds [n, n+1) for 'n',
\* [a, b+1) for 'a-b', [a, oo) for 'a-' and, for '-b', the span without start
\* and with end b+1; membership is i = n, a <= i <= b, i >= a and, for '-b',
\* i <= b (negative i included), for every integer i.
C3_ParseAndMembership ==
    (span.origin = "parse" /\ Form(spanText) # "other") =>
        /\ span.ok
        /\ span.v =
             CASE Form(spanText) = "n" ->
                    [start |-> SomeInt(LowOf(spanText)),
                     end |-> SomeInt(LowOf(spanText) + 1)]
               [] Form(spanText) = "a-b" ->
                    [start |-> SomeInt(LowOf(spanText)),
                     end |-> SomeInt(HighOf(spanText) + 1)]
               [] Form(spanText) = "a-" ->
                    [start |-> SomeInt(LowOf(spanText)), end |-> NoneInt]
               [] Form(spanText) = "-b" ->
                    [start |-> NoneInt, end |-> SomeInt(HighOf(spanText) + 1)]
        /\ probe.kind = "span" =>
             (probe.in <=>
                CASE Form(spanText) = "n" -> probe.i = LowOf(spanText)
                  [] Form(spanText) = "a-b" ->
                        LowOf(spanText) <= probe.i /\ probe.i <= HighOf(spanText)
                  [] Form(spanText) = "a-" -> LowOf(spanText) <= probe.i
                  [] Form(spanText) = "-b" -> probe.i <= HighOf(spanText))

\* A negative index found in a span parsed from a text of the form '-b'.
C3_Witness ==
    /\ span.origin = "parse"
    /\ Form(spanText) = "-b"
    /\ probe.kind = "span"
    /\ probe.i < 0
    /\ probe.in

\* C4, as stated: every Span built (by Span.parse, by Spans.all, or as the
\* default border-top span) has start <= end when it has both bounds.
C4_StartNotAfterEndAsStated ==
    (span.ok /\ span.v.start.some /\ span.v.end.some) =>
        span.v.start.v <= span.v.end.v

\* C4, amended: a Span built by Spans.all, as the default border-top span, or
\* by Span.parse from 'n' has start <= end when it has both bounds; one built
\* by Span.parse from 'a-b' has both bounds and has start <= end exactly when
\* a <= b + 1 (a text with b + 1 < a is accepted and gives start > end).
C4_StartNotAfterEnd ==
    /\ (span.ok /\ span.origin \in {"all", "default"}
            /\ span.v.start.some /\ span.v.end.some) =>
          span.v.start.v <= span.v.end.v
    /\ (span.origin = "parse" /\ Form(spanText) = "n") =>
          /\ span.ok /\ span.v.start.some /\ span.v.end.some
          /\ span.v.start.v <= span.v.end.v
    /\ (span.origin = "parse" /\ Form(spanText) = "a-b") =>
          /\ span.ok /\ span.v.start.some /\ span.v.end.some
          /\ (span.v.start.v <= span.v.end.v
                <=> LowOf(spanText) <= HighOf(spanText) + 1)

\* A span parsed from 'a-b' whose start is after its end.
C4_Witness ==
    /\ span.origin = "parse"
    /\ span.ok
    /\ Form(spanText) = "a-b"
    /\ span.v.start.v > span.v.end.v

---------------------------------------------------------------------------
(* Rounding to a power-of-ten magnitude. *)

\* The multiples of m nearest to v (two of them when v lies half-way).
NearestMultiples(v, m) ==
    {x \in {(v \div m) * m, (v \div m) * m + m} :
        2 * (IF x >= v THEN x - v ELSE v - x) <= m}

\* C5: round with negative decimals d turns an integer cell v into the text
\* of v rounded to a multiple of 10^(-d).
C5_RoundsToMagnitude ==
    (roundCall.step = "applied" /\ roundCall.decimals < 0) =>
        \E x \in NearestMultiples(IntOf(roundCall.cell).v,
                                  Pow10(0 - roundCall.decimals)) :
            roundCall.result = IntText(x)

---------------------------------------------------------------------------
(* The pipeline. *)

\* The apply() calls of the last printed row made for column c, in order.
CallsFor(c) == SelectSeq(cellLog, LAMBDA e : e.col = c)

\* The coordinate of column c in the last printed row.
LastCell(c) == <<SomeInt(emitted[Len(emitted)].row), SomeInt(c)>>

\* The record of the k-th printed row.
RecordOf(k) == data[emitted[k].source + 1]

\* C1: for every cell of a printed row, the modifiers whose span-sets contain
\* the cell have their apply invoked once each, in descending priority (one of
\* strictly higher priority before one of lower priority, so round and percent
\* before fg and bg whatever the command line's order), the first on the
\* quoted cell and each next one on the output of the one before it.
C1_HigherPriorityAppliesFirst ==
    emitted # <<>> =>
        \A c \in 0..(Len(cols) - 1) :
            LET calls == CallsFor(c) IN
            /\ {calls[k].w : k \in DOMAIN calls}
                 = {w \in DOMAIN wrappers : InSpans(wrappers[w], LastCell(c))}
            /\ \A k, l \in DOMAIN calls :
                 /\ (k # l) => calls[k].w # calls[l].w
                 /\ Priority(wrappers[calls[k].w]) > Priority(wrappers[calls[l].w])
                       => k < l
                 /\ (/\ wrappers[calls[k].w].kind \in {"RoundNumbers", "Percent"}
                     /\ wrappers[calls[l].w].kind \in {"TextColor", "BackgroundColor"})
                       => k < l
            /\ \A k \in DOMAIN calls :
                 calls[k].input =
                    IF k = 1 THEN quote(RecordOf(Len(emitted))[cols[c + 1]])
                    ELSE calls[k - 1].output

\* A cell on which bg came first on the command line and round ran first,
\* bg then wrapping what round made of the cell.
C1_Witness ==
    /\ cfg.col_modifiers = << <<"0", ":", "bg", ":", "red">>,
                              <<"0", ":", "round", ":", "0">> >>
    /\ \E i, j \in DOMAIN cellLog :
          /\ i < j
          /\ cellLog[i].col = 0 /\ cellLog[j].col = 0
          /\ wrappers[cellLog[i].w].kind = "RoundNumbers"
          /\ wrappers[cellLog[j].w].kind = "BackgroundColor"
          /\ cellLog[j].input = cellLog[i].output
          /\ cellLog[i].output # cellLog[i].input

\* Coordinates with one component undefined.
RowLess == {<<NoneInt, SomeInt(c)>> : c \in 0..MaxIndex} \cup {<<NoneInt, NoneInt>>}

ColLess == {<<SomeInt(r), NoneInt>> : r \in 0..MaxIndex} \cup {<<NoneInt, NoneInt>>}

\* C2: a coordinate without row matches no row-scoped span-set and one
\* without column no column-scoped span-set, the 'all' set included; and no
\* apply_row call is ever made on a column-scoped modifier.
C2_UndefinedAxisNeverMatches ==
    /\ \A cell \in RowLess : ~RowSpansContains(SpansAll, cell)
    /\ \A cell \in ColLess : ~ColSpansContains(SpansAll, cell)
    /\ \A w \in DOMAIN wrappers :
          /\ wrappers[w].scope = "row" =>
                \A cell \in RowLess : ~InSpans(wrappers[w], cell)
          /\ wrappers[w].scope = "col" =>
                \A cell \in ColLess : ~InSpans(wrappers[w], cell)
    /\ \A k \in DOMAIN rowLog : wrappers[rowLog[k].w].scope # "col"

\* A printed row in which a column-scoped modifier over every column applied
\* to a cell, and whose row-level calls are those of the row-scoped ones.
C2_Witness ==
    /\ rowLog # <<>>
    /\ \E k \in DOMAIN cellLog :
          /\ wrappers[cellLog[k].w].scope = "col"
          /\ wrappers[cellLog[k].w].spans = SpansAll

---------------------------------------------------------------------------
(* The example of the specification. *)

ExampleCommandLine ==
    [DefaultOptions(ExampleFile) EXCEPT
        !.col_modifiers = << <<"0", ":", "round", ":", "0">> >>]

\* C6, as stated: the example prints the row lines "1 & -5 \\" and
\* "2 & 10 \\" and then the rule.
C6_ExampleAsStated ==
    (cfg = ExampleCommandLine /\ pc = "done") =>
        out = << [call |-> "row",
                  text |-> <<"1", " ", "&", " ", "-", "5", " ", "\\", "\\", "\n">>],
                 [call |-> "row",
                  text |-> <<"2", " ", "&", " ", "1", "0", " ", "\\", "\\", "\n">>],
                 [call |-> "rule", text |-> <<"\\", "midrule", "\n">>] >>

\* C6, amended: the example prints, for the first row, "1 & (5)", a line
\* feed, "\\" and a line feed (column 1 is outside the modifier's span "0", so
\* its parenthesized value stays as it is, and the terminator is on a line of
\* its own); for the second row "\midrule" and a line feed (the default
\* border before every row but the first), then "2 & 10", a line feed, "\\"
\* and a line feed; and then the closing "\midrule" line.
C6_Example ==
    (cfg = ExampleCommandLine /\ pc = "done") =>
        out = << [call |-> "row",
                  text |-> <<"1", " ", "&", " ", "(", "5", ")", "\n",
                             "\\", "\\", "\n">>],
                 [call |-> "row",
                  text |-> <<"\\", "midrule", "\n", "2", " ", "&", " ", "1", "0",
                             "\n", "\\", "\\", "\n">>],
                 [call |-> "rule", text |-> <<"\\", "midrule", "\n">>] >>

\* The example rendered to its end.
C6_Witness == cfg = ExampleCommandLine /\ pc = "done" /\ Len(out) = 3

---------------------------------------------------------------------------
(* Configuration errors. *)

MalformedSpanOptions == {SomeText(<<"x">>)}

\* The command line holds an unknown key, a malformed span or a modifier
\* with the wrong number of arguments.
HasConfigurationError(c) ==
    \/ \E k \in DOMAIN c.row_modifiers : c.row_modifiers[k] \in ErrorModifierTexts
    \/ \E k \in DOMAIN c.col_modifiers : c.col_modifiers[k] \in ErrorModifierTexts
    \/ c.rows \in MalformedSpanOptions
    \/ c.cols \in MalformedSpanOptions
    \/ c.border_top \in MalformedSpanOptions

\* C7: a run whose command line holds a configuration error aborts, and
\* has printed nothing.
C7_ConfigurationErrorsAbort ==
    (HasConfigurationError(cfg) /\ pc # "start") => (pc = "aborted" /\ out = <<>>)

---------------------------------------------------------------------------
(* Rows and output. *)

\* "\\" and a line feed: RowWrapper's bare line terminator.
BareTerminator == <<"\\", "\\", "\n">>

\* Every selected cell of the k-th printed row quotes to the empty text.
AllCellsEmpty(k) == \A c \in DOMAIN cols : quote(RecordOf(k)[cols[c]]) = <<>>

\* C8: the text printed for a row whose every cell quotes to the empty text
\* is the bare line terminator, or the border rule and then the bare line
\* terminator; it is never empty and holds no cell separator.
C8_EmptyRowPrintsTerminator ==
    \A k \in DOMAIN emitted :
        AllCellsEmpty(k) =>
            /\ out[k].call = "row"
            /\ out[k].text # <<>>
            /\ out[k].text \in
                 {BareTerminator,
                  <<"\\">> \o cfg.border_mid_cmd \o <<"\n">> \o BareTerminator}

\* A row of empty cells printed as the bare terminator although a column
\* modifier gave one of its cells a text.
C8_Witness ==
    /\ emitted # <<>>
    /\ cols # <<>>
    /\ AllCellsEmpty(Len(emitted))
    /\ out[Len(emitted)].text = BareTerminator
    /\ \E k \in DOMAIN cellLog : cellLog[k].output # <<>>

\* The indices of data the rows span-set contains.
Admitted == {i \in 0..(Len(data) - 1) : SpansContains(rows, i)}

\* C9, as stated: the row index a printed row's modifiers are given is the
\* row's index in the source sequence.
C9_RowIndexIsSourceIndex ==
    \A k \in DOMAIN emitted : emitted[k].row = emitted[k].source

\* C9, amended: Spans.filter yields, in input order, the elements (alone,
\* without their indices) of exactly the positions the span-set contains; the
\* row index given to the modifiers of an admitted row is its position among
\* the admitted rows, counted from 0.
C9_FilterYieldsAdmittedInOrder ==
    /\ \A k \in DOMAIN emitted :
          /\ emitted[k].source \in Admitted
          /\ emitted[k].row = k - 1
          /\ emitted[k].row = Cardinality({i \in Admitted : i < emitted[k].source})
    /\ \A k, l \in DOMAIN emitted : k < l => emitted[k].source < emitted[l].source
    /\ pc = "done" => {emitted[k].source : k \in DOMAIN emitted} = Admitted
    /\ pc \in {"rows", "done"} =>
          LET names == cfg.file[cfg.start_at + 1]
              skipped == IF Given(cfg.skip_cols)
                         THEN {SplitAll(cfg.skip_cols.v, ",")[k] :
                                 k \in DOMAIN SplitAll(cfg.skip_cols.v, ",")}
                         ELSE {}
              picked == {i \in DOMAIN names :
                            /\ SpansContains(Configuration(cfg).v.cols, i - 1)
                            /\ names[i] \notin skipped}
          IN  /\ Len(cols) = Cardinality(picked)
              /\ \A j \in DOMAIN cols :
                    \E i \in picked :
                        /\ cols[j] = names[i]
                        /\ j = Cardinality({h \in picked : h <= i})

\* A printed row whose index in the source is not the index it was given.
C9_Witness ==
    \E k \in DOMAIN emitted :
        /\ emitted[k].source # emitted[k].row
        /\ \E e \in DOMAIN cellLog : wrappers[cellLog[e].w].kind = "Bold"

\* C10: while rows are printed the output holds one row output per printed
\* row and no rule; a run that ends without error has printed one row output
\* for each admitted row, in source order, none for the others, and then the
\* closing rule once if border-bottom is enabled and not at all if it is not.
C10_OneOutputPerAdmittedRow ==
    /\ pc \in {"rows", "failed"} =>
          /\ Len(out) = Len(emitted)
          /\ \A k \in DOMAIN out : out[k].call = "row"
    /\ pc = "done" =>
          /\ {emitted[k].source : k \in DOMAIN emitted} = Admitted
          /\ Len(emitted) = Cardinality(Admitted)
          /\ \A k, l \in DOMAIN emitted : k < l => emitted[k].source < emitted[l].source
          /\ \A k \in DOMAIN emitted :
                out[k] = [call |-> "row",
                          text |-> PrintedRow(k - 1, RecordOf(k), cols, wrappers).text]
          /\ Len(out) = Len(emitted) + (IF cfg.border_bottom THEN 1 ELSE 0)
          /\ cfg.border_bottom =>
                out[Len(out)] = [call |-> "rule", text |-> <<"\\", "midrule", "\n">>]

\* A finished run that passed over a row, printed another and, border-bottom
\* being disabled, printed no rule.
C10_Witness ==
    /\ pc = "done"
    /\ ~cfg.border_bottom
    /\ emitted # <<>>
    /\ Cardinality(Admitted) < Len(data)
    /\ Len(out) = Len(emitted)

---------------------------------------------------------------------------
(* The header row. *)

\* dict(zip(cols, cols)): a row whose value in each selected column is the
\* column's own name.
IsHeaderRow(record) ==
    /\ DOMAIN record = {cols[c] : c \in DOMAIN cols}
    /\ \A c \in DOMAIN cols : record[cols[c]] = SomeText(cols[c])

\* The non-blank lines of the file after its header line.
LinesRead ==
    SelectSeq(SubSeq(cfg.file, cfg.start_at + 2, Len(cfg.file)), LAMBDA l : l # <<>>)

\* The first printed row is the header row, printed as row 0 through
\* print_row.
HeaderPrintedFirst ==
    /\ emitted[1].source = 0
    /\ emitted[1].row = 0
    /\ IsHeaderRow(data[1])
    /\ out[1] = [call |-> "row",
                 text |-> PrintedRow(0, data[1], cols, wrappers).text]

\* C11, as stated: with header emission enabled, whatever the row span
\* filter and the column selection, the first row printed is the header row,
\* printed as row 0 through the same pipeline as the data rows.
C11_HeaderFirstAsStated ==
    (~cfg.skip_headers /\ emitted # <<>>) => HeaderPrintedFirst

\* C11, amended: with header emission enabled the header row, holding each
\* selected column's own name, is put before the rows read, at index 0 of the
\* sequence the row span filter is applied to.  If the row span-set contains
\* 0 the first row printed is the header row, printed as row 0 through the
\* same cell and row pipeline as the data rows; if it does not, the header
\* row is never printed and the first row printed is a data row.
C11_HeaderIsFirstFilteredRow ==
    ~cfg.skip_headers =>
        /\ pc \in {"rows", "done"} =>
              /\ Len(data) = 1 + Len(LinesRead)
              /\ IsHeaderRow(data[1])
              /\ \A k \in DOMAIN LinesRead :
                    data[k + 1] = DictRow(cfg.file[cfg.start_at + 1], LinesRead[k])
        /\ (emitted # <<>> /\ SpansContains(rows, 0)) => HeaderPrintedFirst
        /\ ~SpansContains(rows, 0) =>
              \A k \in DOMAIN emitted :
                  /\ emitted[k].source # 0
                  /\ data[emitted[k].source + 1]
                       = DictRow(cfg.file[cfg.start_at + 1],
                                 LinesRead[emitted[k].source])

\* The header row of a selected column printed first, as row 0, under a row
\* span filter, a column modifier having been applied to its cell.
C11_Witness ==
    /\ ~cfg.skip_headers
    /\ Given(cfg.rows)
    /\ Given(cfg.cols)
    /\ cols = << <<"b">> >>
    /\ Len(emitted) = 1
    /\ HeaderPrintedFirst
    /\ \E e \in DOMAIN cellLog :
          /\ wrappers[cellLog[e].w].kind = "TextColor"
          /\ cellLog[e].input = <<"b">>

=============================================================================
